---- MODULE Spec2Model ----
(***************************************************************************)
(* The client-side streaming chat protocol of powere.ch: the SSE chat      *)
(* component with its watchdog timers, the non-streaming fallback, the     *)
(* conversation identifier and its persistence, and reset.                 *)
(*                                                                         *)
(* The repository holds four variants of the component.  The variable      *)
(* `variant` says which one is mounted:                                    *)
(*   "AIGuide"    apps/web/src/components/AIGuide.tsx  (send)              *)
(*   "units"      apps/web/src/lib/units.ts            (send)              *)
(*   "part001"    unnamed/part_001                     (doAsk)             *)
(*   "ChatWidget" apps/web/src/components/ChatWidget.tsx (send, no stream) *)
(*                                                                         *)
(* One action is one run-to-completion callback of the browser's event     *)
(* loop: a click handler, a timer callback, the delivery of one SSE event, *)
(* or the continuation of an async function after an await.  Text is a     *)
(* sequence of symbols; indexes into `messages` are 0-based as in the      *)
(* source (message i is messages[i + 1]).                                  *)
(***************************************************************************)
EXTENDS Integers, Sequences, FiniteSets, TLC

\* ---------------------------------------------------------------- bounds
MaxTurns == 2      \* submissions accepted
MaxEvents == 3     \* SSE events delivered
MaxReloads == 1    \* page reloads
MaxBlocks == 2     \* SSE blocks in a response body
MaxLines == 2      \* lines in an SSE block

\* ------------------------------------------------------------ value sets
Null == "null"
Variants == {"AIGuide", "units", "part001", "ChatWidget"}
Streaming == {"AIGuide", "units", "part001"}
Cids == {"c1", "c2"}
Inputs == {<<>>, <<" ">>, <<"H">>}
Deltas == {<<>>, <<"a">>}
\* What a successful POST /v1/chat answers: an answer text and an identifier (or none).
Answers == {[answer |-> <<"x">>, cid |-> Null], [answer |-> <<" ", "y">>, cid |-> "c2"]}
Details == {<<"overloaded">>}
StatusText == <<"500">>
WarnSign == "(!)"

\* --------------------------------------------------------------- helpers
Min(a, b) == IF a < b THEN a ELSE b
Max(a, b) == IF a > b THEN a ELSE b

\* The white space String.prototype.trim removes, among the symbols used here.
WhiteSpace == {" ", "CR", "LF"}

RECURSIVE TrimStart(_)
TrimStart(s) ==
  IF s # <<>> /\ Head(s) \in WhiteSpace THEN TrimStart(Tail(s)) ELSE s

RECURSIVE TrimEnd(_)
TrimEnd(s) ==
  IF s # <<>> /\ s[Len(s)] \in WhiteSpace THEN TrimEnd(SubSeq(s, 1, Len(s) - 1)) ELSE s

\* String.prototype.trim
Trim(s) == TrimEnd(TrimStart(s))

\* A message without citations and one with an empty citation list are both
\* citations = <<>>.
UserMsg(q, t) == [role |-> "user", content |-> q, citations |-> <<>>, turn |-> t]
AssistantMsg(c, t) == [role |-> "assistant", content |-> c, citations |-> <<>>, turn |-> t]

\* `⚠ ${e.message || String(e)}`
ErrorText(m) == <<WarnSign, " ">> \o m

\* data?.detail || `${r.status} ${r.statusText}`
ErrorMessage(detail) == IF detail # <<>> THEN detail ELSE StatusText

VARIABLES
  variant,          \* which component is mounted (fixed along a behaviour)
  mounted,          \* the mount effects have run
  apiOK,            \* Null (unknown) | "true" | "false"
  conversationId,   \* Null or a server-issued identifier
  store,            \* localStorage entry "aiGuide.convId.v1": Null or an identifier
  messages,         \* Seq of [role, content, citations, turn]; turn is bookkeeping:
                    \* the appending turn
  loading,
  err,              \* part001: the error banner text, <<>> if none
  assistantIdxRef,  \* AIGuide: the shared ref
  abortRef,         \* part001: 0 (null) or the turn whose controller it holds
  turns,            \* per turn: the closure of one send call
  nTurns, nEvents, nReloads,
  resetClean,       \* bookkeeping: a reset hit a turn in flight and nothing was submitted since
  \* one run of createSSEStream's reader loop
  blocks,           \* the response body as the server composed it: a sequence of blocks
  rest,             \* the part of the body not yet delivered by reader.read()
  buf,              \* the loop's text buffer
  emitted,          \* the calls of the event callback so far: Seq of [ev, data]
  readerDone,       \* reader.read() has reported done
  throws            \* the event callback raises an error when given a parsed payload

sseVars == <<blocks, rest, buf, emitted, readerDone, throws>>

vars == <<variant, mounted, apiOK, conversationId, store, messages, loading, err,
          assistantIdxRef, abortRef, turns, nTurns, nEvents, nReloads, resetClean,
          blocks, rest, buf, emitted, readerDone, throws>>

TurnIds == 1..MaxTurns

\* A turn that has not been started.
IdleTurn ==
  [q |-> <<>>, cid0 |-> Null, assistantIdx |-> -1,
   stream |-> "none",        \* none | open | aborted | resolved | rejected
   gotFirstToken |-> FALSE,
   firstTokenWatch |-> "off", hardWatch |-> "off",     \* armed | off
   fbTimer |-> "none", fbCatch |-> "none",             \* none | pending | done
   post |-> "none",                                    \* ChatWidget's request
   life |-> FALSE,          \* bookkeeping: a meta or token event was seen while
                            \* the first-token timer was armed
   noLifeExpiry |-> FALSE,  \* the first-token timer expired with life = FALSE
   completed |-> "no",      \* the first completion recorded: no | done | answer | error
   scen |-> "off", scenCid |-> Null, sum |-> <<>>]

\* The component as constructed, before its mount effects.
Constructed ==
  /\ mounted = FALSE
  /\ apiOK = Null
  /\ conversationId = Null
  /\ store = Null
  /\ messages = <<>>
  /\ loading = FALSE
  /\ err = <<>>
  /\ assistantIdxRef = -1
  /\ abortRef = 0
  /\ turns = [t \in TurnIds |-> IdleTurn]
  /\ nTurns = 0 /\ nEvents = 0 /\ nReloads = 0
  /\ resetClean = FALSE

\* No reader loop is looked at.
NoBody ==
  /\ blocks = <<>>
  /\ rest = <<>>
  /\ buf = <<>>
  /\ emitted = <<>>
  /\ readerDone = FALSE
  /\ throws = FALSE

Init == variant \in Variants /\ Constructed /\ NoBody
InitAIGuide == variant = "AIGuide" /\ Constructed /\ NoBody
InitUnits == variant = "units" /\ Constructed /\ NoBody
InitPart001 == variant = "part001" /\ Constructed /\ NoBody
InitChatWidget == variant = "ChatWidget" /\ Constructed /\ NoBody

\* ------------------------------------------------- persistence and mount
Persisting == {"AIGuide", "ChatWidget"}

\* The effect on [conversationId]: setItem when set, removeItem otherwise.
persistEffect(cid, s) == IF cid # Null THEN cid ELSE Null

\* The mount-only effect: getItem, and setConversationId when something is there.
restoreEffect(s, cid) == IF s # Null THEN s ELSE cid

\* AIGuide declares the persist effect before the restore effect; both run after
\* the first render, whose conversationId is null.  A restored identifier causes
\* a second render, after which the persist effect runs again.
mountEffectsAIGuide(s) ==
  LET s1 == persistEffect(Null, s)
      c == restoreEffect(s1, Null)
      s2 == IF c # Null THEN persistEffect(c, s1) ELSE s1
  IN [cid |-> c, store |-> s2]

\* ChatWidget declares the restore effect first.
mountEffectsChatWidget(s) ==
  LET c == restoreEffect(s, Null)
      s1 == persistEffect(Null, s)
      s2 == IF c # Null THEN persistEffect(c, s1) ELSE s1
  IN [cid |-> c, store |-> s2]

mountEffects(v, s) ==
  CASE v = "AIGuide" -> mountEffectsAIGuide(s)
    [] v = "ChatWidget" -> mountEffectsChatWidget(s)
    [] OTHER -> [cid |-> Null, store |-> s]

\* A mutation of suppliesNewId: the truthiness test on the identifier is missing.
suppliesNewIdUnchecked(c, cid0) == c # cid0

\* data?.conversation_id && data.conversation_id !== conversationId
\* (conversationId is the value the closure of the turn captured: cid0)
suppliesNewId(c, cid0) == c # Null /\ c # cid0

\* setConversationId(c) together with the persist effect of the render it causes.
SetConversationId(c) ==
  /\ conversationId' = c
  /\ store' = IF variant \in Persisting /\ c # conversationId
              THEN persistEffect(c, store) ELSE store

Mount ==
  /\ ~mounted
  /\ mounted' = TRUE
  /\ conversationId' = mountEffects(variant, store).cid
  /\ store' = mountEffects(variant, store).store
  /\ UNCHANGED sseVars
  /\ UNCHANGED <<variant, apiOK, messages, loading, err, assistantIdxRef, abortRef,
                 turns, nTurns, nEvents, nReloads, resetClean>>

\* The reachability effect: GET /v1/ping answers, or fails.
Ping(ok) ==
  /\ mounted
  /\ apiOK = Null
  /\ apiOK' = ok
  /\ UNCHANGED sseVars
  /\ UNCHANGED <<variant, mounted, conversationId, store, messages, loading, err,
                 assistantIdxRef, abortRef, turns, nTurns, nEvents, nReloads, resetClean>>

\* A page reload: every closure, timer and request of the page is gone; only
\* localStorage survives.  (Before the first submission a reload leads back to
\* the initial state, so it is taken only after one.)
Reload ==
  /\ mounted
  /\ nTurns > 0
  /\ nReloads < MaxReloads
  /\ nReloads' = nReloads + 1
  /\ mounted' = FALSE
  /\ apiOK' = Null
  /\ conversationId' = Null
  /\ messages' = <<>>
  /\ loading' = FALSE
  /\ err' = <<>>
  /\ assistantIdxRef' = -1
  /\ abortRef' = 0
  /\ turns' = [t \in TurnIds |-> IdleTurn]
  /\ UNCHANGED <<nTurns, nEvents>>
  /\ resetClean' = FALSE
  /\ UNCHANGED sseVars
  /\ UNCHANGED <<variant, store>>

\* ------------------------------------------------------------------ send
\* A request or transport of turn t is still unresolved.
InFlight(t) ==
  \/ turns[t].stream \in {"open", "aborted"}
  \/ turns[t].fbTimer = "pending"
  \/ turns[t].fbCatch = "pending"
  \/ turns[t].post = "pending"

\* if (!q.trim() || loading || apiOK === false) return;
\* doAsk (part001) tests only q and apiOK, but its only caller is the Ask button,
\* which is disabled while loading.
sendGuard(q) ==
  /\ Trim(q) # <<>>
  /\ apiOK # "false"
  /\ ~loading

\* A mutation of optimistic: the placeholder is appended by a later update.
optimisticUserOnly(m, q, t) == m \o <<UserMsg(q, t)>>

\* setMessages((m) => [...m, { role: "user", ... }, { role: "assistant", content: "" }])
\* ChatWidget appends the user message alone.
optimistic(m, q, t) ==
  IF variant = "ChatWidget"
  THEN m \o <<UserMsg(q, t)>>
  ELSE m \o <<UserMsg(q, t), AssistantMsg(<<>>, t)>>

send(q) ==
  /\ mounted
  /\ nTurns < MaxTurns
  /\ sendGuard(q)
  /\ LET t == CHOOSE u \in TurnIds : turns[u] = IdleTurn /\ \A w \in 1..(u - 1) : turns[w] # IdleTurn
         next == optimistic(messages, q, t)
         s == variant \in Streaming
     IN /\ messages' = next
        /\ assistantIdxRef' = IF variant = "AIGuide" THEN Len(next) - 1 ELSE assistantIdxRef
        /\ abortRef' = IF variant = "part001" THEN t ELSE abortRef
        /\ turns' = [turns EXCEPT ![t] =
             [IdleTurn EXCEPT
                !.q = q,
                !.cid0 = conversationId,
                !.assistantIdx = IF variant \in {"units", "part001"}
                                 THEN Len(messages) + 1 ELSE -1,
                !.stream = IF s THEN "open" ELSE "none",
                !.firstTokenWatch = IF s THEN "armed" ELSE "off",
                !.hardWatch = IF variant \in {"AIGuide", "part001"} THEN "armed" ELSE "off",
                !.post = IF s THEN "none" ELSE "pending",
                !.scen = IF messages = <<>> THEN "start" ELSE "off"]]
        /\ nTurns' = nTurns + 1
  /\ loading' = TRUE
  /\ err' = <<>>
  /\ resetClean' = FALSE
  /\ UNCHANGED sseVars
  /\ UNCHANGED <<variant, mounted, apiOK, conversationId, store, nEvents, nReloads>>

\* ------------------------------------------------------ the SSE events
NoCid == Cids \cup {Null}

\* citations = Null: the event carries no citations array.
Events ==
  {[type |-> "meta", cid |-> c, delta |-> <<>>, citations |-> Null] : c \in NoCid}
  \cup {[type |-> "token", cid |-> Null, delta |-> d, citations |-> Null] : d \in Deltas}
  \cup {[type |-> "done", cid |-> Null, delta |-> <<>>, citations |-> Null]}

\* Token events with a second, different delta.
OtherDeltas == {<<"b">>}
OtherTokenEvents ==
  {[type |-> "token", cid |-> Null, delta |-> d, citations |-> Null] : d \in OtherDeltas}

\* Meta events that carry a citations array.
CiteLists == {<<>>, <<"k1">>, <<"k2">>}
CiteEvents ==
  {[type |-> "meta", cid |-> Null, delta |-> <<>>, citations |-> k] : k \in CiteLists}

\* AIGuide:  Math.min(Math.max(assistantIdxRef.current, 0), next.length - 1)
clampAIGuide(ref, len) == Min(Max(ref, 0), len - 1)

\* units, part001:  assistantIdx < next.length ? assistantIdx : next.length - 1
clampUnits(idx, len) == IF idx < len THEN idx ELSE len - 1

targetIdx(tr, len) ==
  IF variant = "AIGuide" THEN clampAIGuide(assistantIdxRef, len)
  ELSE clampUnits(tr.assistantIdx, len)

\* if (next[i] && next[i].role === "assistant") next[i] = {..., content}
\* (next[-1] is undefined).  The bookkeeping field turn stays with the message.
writeAssistant(msgs, i, content) ==
  IF i >= 0 /\ i < Len(msgs) /\ msgs[i + 1].role = "assistant"
  THEN [msgs EXCEPT ![i + 1].content = content]
  ELSE msgs

\* next[i] = { role: "assistant", content, citations }: the message is replaced.
replaceAssistant(msgs, i, content, cites) ==
  IF i >= 0 /\ i < Len(msgs) /\ msgs[i + 1].role = "assistant"
  THEN [msgs EXCEPT ![i + 1].content = content, ![i + 1].citations = cites]
  ELSE msgs

\* part001's meta handler: next[idx] = { ...next[idx], citations: data.citations }
writeCitations(msgs, i, cites) ==
  IF i >= 0 /\ i < Len(msgs) /\ msgs[i + 1].role = "assistant"
  THEN [msgs EXCEPT ![i + 1].citations = cites]
  ELSE msgs

\* A mutation of appendDelta: the delta is put in front of the content.
appendDeltaInFront(msgs, i, delta) ==
  IF i >= 0 /\ i < Len(msgs)
  THEN writeAssistant(msgs, i, delta \o msgs[i + 1].content)
  ELSE msgs

\* the token handler's update: content + delta
appendDelta(msgs, i, delta) ==
  IF i >= 0 /\ i < Len(msgs)
  THEN writeAssistant(msgs, i, msgs[i + 1].content \o delta)
  ELSE msgs

\* AIGuide and part001 return on an empty delta before setting gotFirstToken;
\* units sets gotFirstToken on every token event.
gotAfterToken(tr, delta) ==
  IF variant = "units" THEN TRUE
  ELSE IF delta = <<>> THEN tr.gotFirstToken ELSE TRUE

\* Bookkeeping of the scenario "meta with an identifier, tokens, done, end".
scenStep(tr, ev) ==
  CASE tr.scen = "start" /\ ev.type = "meta" /\ ev.cid # Null ->
         [tr EXCEPT !.scen = "meta", !.scenCid = ev.cid]
    [] tr.scen = "meta" /\ ev.type = "token" ->
         [tr EXCEPT !.sum = @ \o ev.delta]
    [] tr.scen = "meta" /\ ev.type = "done" ->
         [tr EXCEPT !.scen = "done"]
    [] OTHER -> [tr EXCEPT !.scen = "off", !.scenCid = Null, !.sum = <<>>]

\* A mutation of delivers: the reader loop goes on after controller.abort().
deliversAfterAbort(t) == turns[t].stream \in {"open", "aborted"}

\* The reader loop of turn t can still call the callback: reader.read() has
\* neither reported done nor thrown, and fetch's signal has not been aborted
\* (after controller.abort() the pending read rejects).
delivers(t) == turns[t].stream = "open"

\* The callback given to createSSEStream, run for one parsed event of turn t.
onEvent(t, ev) ==
  /\ delivers(t)
  /\ nEvents < MaxEvents
  /\ nEvents' = nEvents + 1
  /\ LET tr == scenStep(turns[t], ev)
     IN CASE ev.type = "meta" ->
               /\ IF suppliesNewId(ev.cid, tr.cid0)
                  THEN SetConversationId(ev.cid)
                  ELSE UNCHANGED <<conversationId, store>>
               /\ turns' = [turns EXCEPT ![t] =
                    [tr EXCEPT !.life = @ \/ tr.firstTokenWatch = "armed"]]
               /\ messages' = IF variant = "part001" /\ ev.citations # Null
                              THEN writeCitations(messages, targetIdx(tr, Len(messages)),
                                                  ev.citations)
                              ELSE messages
               /\ UNCHANGED loading
          [] ev.type = "token" ->
               /\ messages' = appendDelta(messages, targetIdx(tr, Len(messages)), ev.delta)
               /\ turns' = [turns EXCEPT ![t] =
                    [tr EXCEPT !.life = @ \/ tr.firstTokenWatch = "armed",
                               !.gotFirstToken = gotAfterToken(tr, ev.delta)]]
               /\ UNCHANGED <<conversationId, store, loading>>
          [] ev.type = "done" ->
               /\ loading' = FALSE
               /\ turns' = [turns EXCEPT ![t] =
                    [tr EXCEPT !.completed = IF @ = "no" THEN "done" ELSE @,
                               !.firstTokenWatch = IF variant = "units" THEN "off" ELSE @,
                               !.life = IF variant = "units" THEN FALSE ELSE @]]
               /\ UNCHANGED <<conversationId, store, messages>>
  /\ UNCHANGED sseVars
  /\ UNCHANGED <<variant, mounted, apiOK, err, assistantIdxRef, abortRef,
                 nTurns, nReloads, resetClean>>

\* --------------------------------------------- watchdogs and the fallback
\* abortAndFallback / fallbackRequest / stopAndFallback up to its first await:
\* controller.abort(), then the POST to /v1/chat is issued.  slot names the
\* caller: the first-token timer ("fbTimer") or send's catch ("fbCatch").
abortAndFallback(tr, slot) ==
  LET a == [tr EXCEPT !.stream = IF @ = "open" THEN "aborted" ELSE @]
      b == [a EXCEPT !.scen = "off", !.scenCid = Null, !.sum = <<>>]
  IN IF slot = "fbTimer" THEN [b EXCEPT !.fbTimer = "pending"]
     ELSE [b EXCEPT !.fbCatch = "pending"]

\* window.setTimeout(() => { if (!gotFirstToken) abortAndFallback(); }, 6000)
\* Timers of equal delay expire in the order they were armed.
firstTokenWatchFires(t) ==
  /\ turns[t].firstTokenWatch = "armed"
  /\ \A u \in 1..(t - 1) : turns[u].firstTokenWatch # "armed"
  /\ LET tr == [turns[t] EXCEPT !.firstTokenWatch = "off", !.life = FALSE]
     IN turns' = [turns EXCEPT ![t] =
          IF ~tr.gotFirstToken
          THEN [abortAndFallback(tr, "fbTimer") EXCEPT !.noLifeExpiry = ~turns[t].life]
          ELSE tr]
  /\ UNCHANGED sseVars
  /\ UNCHANGED <<variant, mounted, apiOK, conversationId, store, messages, loading, err,
                 assistantIdxRef, abortRef, nTurns, nEvents, nReloads, resetClean>>

\* window.setTimeout(() => setLoading(false), 45000)   (part001: 30000)
\* It cannot expire before the 6000 ms timer armed by the same call.
hardWatchFires(t) ==
  /\ turns[t].hardWatch = "armed"
  /\ turns[t].firstTokenWatch # "armed"
  /\ \A u \in 1..(t - 1) : turns[u].hardWatch # "armed"
  /\ turns' = [turns EXCEPT ![t].hardWatch = "off"]
  /\ loading' = FALSE
  /\ UNCHANGED sseVars
  /\ UNCHANGED <<variant, mounted, apiOK, conversationId, store, messages, err,
                 assistantIdxRef, abortRef, nTurns, nEvents, nReloads, resetClean>>

\* send's finally block: AIGuide and part001 clear both timers; units clears none.
sendFinally(tr) ==
  IF variant \in {"AIGuide", "part001"}
  THEN [tr EXCEPT !.firstTokenWatch = "off", !.hardWatch = "off", !.life = FALSE]
  ELSE tr

\* part001's finally also sets abortRef.current = null.
abortRefAfterFinally == IF variant = "part001" THEN 0 ELSE abortRef

\* The stream ends (reader.read() reports done): `await promise` returns.
streamEnds(t) ==
  /\ turns[t].stream = "open"
  /\ LET tr == turns[t] IN turns' = [turns EXCEPT ![t] =
       sendFinally([turns[t] EXCEPT !.stream = "resolved",
                                    !.scen = IF @ = "done" THEN "end" ELSE "off",
                                    !.scenCid = IF tr.scen = "done" THEN @ ELSE Null,
                                    !.sum = IF tr.scen = "done" THEN @ ELSE <<>>])]
  /\ abortRef' = abortRefAfterFinally
  /\ UNCHANGED sseVars
  /\ UNCHANGED <<variant, mounted, apiOK, conversationId, store, messages, loading, err,
                 assistantIdxRef, nTurns, nEvents, nReloads, resetClean>>

\* A mutation of streamFails: the catch empties the assistant message before it
\* calls the fallback.
streamFailsClearsContent(t) ==
  /\ turns[t].stream = "open"
  /\ turns' = [turns EXCEPT ![t] =
       abortAndFallback([turns[t] EXCEPT !.stream = "rejected"], "fbCatch")]
  /\ messages' = replaceAssistant(messages, targetIdx(turns[t], Len(messages)), <<>>, <<>>)
  /\ UNCHANGED sseVars
  /\ UNCHANGED <<variant, mounted, apiOK, conversationId, store, loading, err,
                 assistantIdxRef, abortRef, nTurns, nEvents, nReloads, resetClean>>

\* The stream promise rejects (non-2xx, no body, network error): send's catch
\* calls the fallback and awaits it.
streamFails(t) ==
  /\ turns[t].stream = "open"
  /\ turns' = [turns EXCEPT ![t] =
       abortAndFallback([turns[t] EXCEPT !.stream = "rejected"], "fbCatch")]
  /\ UNCHANGED sseVars
  /\ UNCHANGED <<variant, mounted, apiOK, conversationId, store, messages, loading, err,
                 assistantIdxRef, abortRef, nTurns, nEvents, nReloads, resetClean>>

\* The rejection caused by controller.abort() reaches the same catch.
abortRejects(t) ==
  /\ turns[t].stream = "aborted"
  /\ turns' = [turns EXCEPT ![t] =
       abortAndFallback([turns[t] EXCEPT !.stream = "rejected"], "fbCatch")]
  /\ UNCHANGED sseVars
  /\ UNCHANGED <<variant, mounted, apiOK, conversationId, store, messages, loading, err,
                 assistantIdxRef, abortRef, nTurns, nEvents, nReloads, resetClean>>

\* What POST /v1/chat can answer.
Responses ==
  {[ok |-> TRUE, answer |-> a.answer, cid |-> a.cid, citations |-> <<>>, detail |-> <<>>] :
     a \in Answers}
  \cup {[ok |-> FALSE, answer |-> <<>>, cid |-> Null, citations |-> <<>>, detail |-> d] :
          d \in Details}

\* The rest of abortAndFallback after `await fetch`, for the call in `slot`;
\* for the call made by send's catch, send's finally block follows.
fallbackResolves(t, slot, r) ==
  /\ turns[t][slot] = "pending"
  /\ LET tr == turns[t]
         i == targetIdx(tr, Len(messages))
         settled == [tr EXCEPT ![slot] = "done",
                               !.completed = IF @ # "no" THEN @
                                             ELSE IF r.ok THEN "answer" ELSE "error",
                               !.firstTokenWatch = IF variant = "units" THEN "off" ELSE @,
                               !.life = IF variant = "units" THEN FALSE ELSE @]
     IN /\ IF r.ok
           THEN /\ IF suppliesNewId(r.cid, tr.cid0)
                   THEN SetConversationId(r.cid)
                   ELSE UNCHANGED <<conversationId, store>>
                /\ messages' = replaceAssistant(messages, i, Trim(r.answer), r.citations)
                /\ err' = err
           ELSE /\ UNCHANGED <<conversationId, store>>
                /\ IF variant = "part001"
                   THEN /\ err' = ErrorMessage(r.detail)
                        /\ messages' = messages
                   ELSE /\ err' = err
                        /\ messages' =
                             IF variant = "AIGuide"
                             THEN replaceAssistant(messages, i,
                                    ErrorText(ErrorMessage(r.detail)), <<>>)
                             ELSE writeAssistant(messages, i,
                                    ErrorText(ErrorMessage(r.detail)))
        /\ turns' = [turns EXCEPT ![t] =
             IF slot = "fbCatch" THEN sendFinally(settled) ELSE settled]
        /\ abortRef' = IF slot = "fbCatch" THEN abortRefAfterFinally ELSE abortRef
  /\ loading' = FALSE
  /\ UNCHANGED sseVars
  /\ UNCHANGED <<variant, mounted, apiOK, assistantIdxRef, nTurns, nEvents, nReloads,
                 resetClean>>

\* ChatWidget: the answer to its single POST /v1/chat.
postResolves(t, r) ==
  /\ turns[t].post = "pending"
  /\ IF r.ok
     THEN /\ IF suppliesNewId(r.cid, turns[t].cid0)
             THEN SetConversationId(r.cid)
             ELSE UNCHANGED <<conversationId, store>>
          /\ messages' = messages \o
               <<[AssistantMsg(Trim(r.answer), t) EXCEPT !.citations = r.citations]>>
     ELSE /\ UNCHANGED <<conversationId, store>>
          /\ messages' = messages \o <<AssistantMsg(ErrorText(ErrorMessage(r.detail)), t)>>
  /\ turns' = [turns EXCEPT ![t] = [@ EXCEPT !.post = "done",
                                             !.completed = IF r.ok THEN "answer" ELSE "error"]]
  /\ loading' = FALSE
  /\ UNCHANGED sseVars
  /\ UNCHANGED <<variant, mounted, apiOK, err, assistantIdxRef, abortRef,
                 nTurns, nEvents, nReloads, resetClean>>

\* ----------------------------------------------------------- reset, stop
\* Bookkeeping: the user's reset or stop ends the scenario of every turn.
scenOff(ts) ==
  [t \in TurnIds |-> [ts[t] EXCEPT !.scen = "off", !.scenCid = Null, !.sum = <<>>]]

\* abortRef.current?.abort()
abortByRef(ts) ==
  IF abortRef # 0 /\ ts[abortRef].stream = "open"
  THEN [ts EXCEPT ![abortRef].stream = "aborted"]
  ELSE ts

\* resetConversation (AIGuide), resetChat (units, ChatWidget), newChat (part001).
\* Only newChat aborts anything.
reset ==
  /\ mounted
  /\ messages' = <<>>
  /\ SetConversationId(Null)
  /\ err' = IF variant = "part001" THEN <<>> ELSE err
  /\ turns' = scenOff(IF variant = "part001" THEN abortByRef(turns) ELSE turns)
  /\ abortRef' = IF variant = "part001" THEN 0 ELSE abortRef
  /\ resetClean' = (resetClean \/ \E t \in TurnIds : InFlight(t))
  /\ UNCHANGED sseVars
  /\ UNCHANGED <<variant, mounted, apiOK, loading, assistantIdxRef,
                 nTurns, nEvents, nReloads>>

\* part001: the Stop button, enabled while loading.
stopGenerating ==
  /\ mounted
  /\ variant = "part001"
  /\ loading
  /\ turns' = scenOff(abortByRef(turns))
  /\ abortRef' = 0
  /\ loading' = FALSE
  /\ UNCHANGED sseVars
  /\ UNCHANGED <<variant, mounted, apiOK, conversationId, store, messages, err,
                 assistantIdxRef, nTurns, nEvents, nReloads, resetClean>>

\* ------------------------------------------- createSSEStream's reader loop
\* Text on the wire is a sequence of symbols: "CR", "LF", " ", the digit "1", the
\* letters "x" and "X", and "E" and "D" for the line prefixes "event:" and "data:".
Eol(e) == IF e = "CRLF" THEN <<"CR", "LF">> ELSE <<"LF">>

\* The bodies a server can give to event lines and to data lines.
EventBodies == {<<" ", "X">>}
DataBodies == {<<" ", "1">>, <<"x">>, <<>>}
SSELines ==
  {[kind |-> "E", body |-> b] : b \in EventBodies}
  \cup {[kind |-> "D", body |-> b] : b \in DataBodies}

\* A block: one to MaxLines lines, at least one of them a data line, every line
\* ended by eol, and the blank line that ends the block ended by term.
SSEBlocks ==
  {[lines |-> ls, eol |-> e, term |-> tm] :
     ls \in {l \in UNION {[1..n -> SSELines] : n \in 1..MaxLines} :
               \E i \in DOMAIN l : l[i].kind = "D"},
     e \in {"LF", "CRLF"}, tm \in {"LF", "CRLF"}}

Bodies == UNION {[1..n -> SSEBlocks] : n \in 1..MaxBlocks}

RECURSIVE WireLines(_, _)
WireLines(ls, e) ==
  IF ls = <<>> THEN <<>>
  ELSE <<Head(ls).kind>> \o Head(ls).body \o Eol(e) \o WireLines(Tail(ls), e)

WireBlock(b) == WireLines(b.lines, b.eol) \o Eol(b.term)

RECURSIVE Wire(_)
Wire(bs) == IF bs = <<>> THEN <<>> ELSE WireBlock(Head(bs)) \o Wire(Tail(bs))

\* buf.replace(/\r\n/g, "\n")
RECURSIVE replaceCRLF(_)
replaceCRLF(s) ==
  IF Len(s) < 2 THEN s
  ELSE IF s[1] = "CR" /\ s[2] = "LF" THEN <<"LF">> \o replaceCRLF(SubSeq(s, 3, Len(s)))
  ELSE <<s[1]>> \o replaceCRLF(Tail(s))

\* buf.indexOf("\n\n"), 1-based; 0 when there is none
indexOfBlank(s) ==
  IF \E i \in 1..(Len(s) - 1) : s[i] = "LF" /\ s[i + 1] = "LF"
  THEN CHOOSE i \in 1..(Len(s) - 1) :
         /\ s[i] = "LF" /\ s[i + 1] = "LF"
         /\ \A j \in 1..(i - 1) : ~(s[j] = "LF" /\ s[j + 1] = "LF")
  ELSE 0

\* block.split("\n")
RECURSIVE split(_, _)
split(s, line) ==
  IF s = <<>> THEN <<line>>
  ELSE IF Head(s) = "LF" THEN <<line>> \o split(Tail(s), <<>>)
  ELSE split(Tail(s), Append(line, Head(s)))

\* toLowerCase
toLowerCase(s) == [i \in DOMAIN s |-> IF s[i] = "X" THEN "x" ELSE s[i]]

\* dataLines.join("\n")
RECURSIVE join(_)
join(ls) ==
  IF ls = <<>> THEN <<>>
  ELSE IF Len(ls) = 1 THEN ls[1]
  ELSE ls[1] \o <<"LF">> \o join(Tail(ls))

\* The for loop over the lines of a block: the last event line names the event,
\* the data lines are collected.
RECURSIVE scanLines(_, _, _)
scanLines(ls, ev, dataLines) ==
  IF ls = <<>> THEN [ev |-> ev, dataLines |-> dataLines]
  ELSE LET line == Head(ls)
       IN IF line # <<>> /\ Head(line) = "E"
          THEN scanLines(Tail(ls), toLowerCase(Trim(Tail(line))), dataLines)
          ELSE IF line # <<>> /\ Head(line) = "D"
          THEN scanLines(Tail(ls), ev, Append(dataLines, Trim(Tail(line))))
          ELSE scanLines(Tail(ls), ev, dataLines)

\* The value of a text of digits.
RECURSIVE numberOf(_)
numberOf(s) == IF s = <<>> THEN 0 ELSE 10 * numberOf(SubSeq(s, 1, Len(s) - 1)) + 1

\* try { JSON.parse(dataStr) } catch { { raw: dataStr } }: among these symbols
\* the JSON texts are the non-empty texts of digits.
payloadOf(dataStr) ==
  IF dataStr # <<>> /\ \A i \in DOMAIN dataStr : dataStr[i] = "1"
  THEN [kind |-> "json", num |-> numberOf(dataStr), raw |-> <<>>]
  ELSE [kind |-> "raw", num |-> 0, raw |-> dataStr]

\* A mutation of blockEvents: a block whose data is no JSON text is dropped.
blockEventsDropsRaw(block) ==
  LET r == scanLines(split(block, <<>>), <<"message">>, <<>>)
  IN IF r.dataLines # <<>> /\ payloadOf(join(r.dataLines)).kind = "json"
     THEN <<[ev |-> r.ev, data |-> payloadOf(join(r.dataLines))]>>
     ELSE <<>>

\* The calls of the callback one block causes: none without a data line.
\* try { onEvent(ev, JSON.parse(dataStr)); } catch { onEvent(ev, { raw: dataStr }); }
\* The catch also catches what the callback raises, and calls it again.
blockEvents(block) ==
  LET r == scanLines(split(block, <<>>), <<"message">>, <<>>)
      dataStr == join(r.dataLines)
  IN IF r.dataLines # <<>>
     THEN IF throws /\ payloadOf(dataStr).kind = "json"
          THEN <<[ev |-> r.ev, data |-> payloadOf(dataStr)],
                 [ev |-> r.ev, data |-> [kind |-> "raw", num |-> 0, raw |-> dataStr]]>>
          ELSE <<[ev |-> r.ev, data |-> payloadOf(dataStr)]>>
     ELSE <<>>

\* while ((idx = buf.indexOf("\n\n")) !== -1) { ... }
RECURSIVE drain(_, _)
drain(b, out) ==
  LET idx == indexOfBlank(b)
  IN IF idx = 0 THEN [buf |-> b, out |-> out]
     ELSE drain(SubSeq(b, idx + 2, Len(b)), out \o blockEvents(SubSeq(b, 1, idx - 1)))

\* A mutation of readChunk: only the new chunk is normalised, not the buffer.
readChunkNormalisesChunk(b, chunk, out) == drain(b \o replaceCRLF(chunk), out)

\* One turn of the reader loop with a chunk: append, normalise, drain.
readChunk(b, chunk, out) == drain(replaceCRLF(b \o chunk), out)

mainVars == <<variant, mounted, apiOK, conversationId, store, messages, loading, err,
              assistantIdxRef, abortRef, turns, nTurns, nEvents, nReloads, resetClean>>

\* reader.read() delivers the next n symbols of the body.
read(n) ==
  /\ ~readerDone
  /\ n \in 1..Len(rest)
  /\ LET r == readChunk(buf, SubSeq(rest, 1, n), emitted)
     IN /\ buf' = r.buf
        /\ emitted' = r.out
  /\ rest' = SubSeq(rest, n + 1, Len(rest))
  /\ UNCHANGED <<blocks, readerDone, throws>>
  /\ UNCHANGED mainVars

\* A mutation of readEnd: at the end the leftover is handled as a last block.
readEndFlushes ==
  /\ ~readerDone
  /\ rest = <<>>
  /\ readerDone' = TRUE
  /\ emitted' = emitted \o blockEvents(buf)
  /\ UNCHANGED <<blocks, rest, buf, throws>>
  /\ UNCHANGED mainVars

\* reader.read() reports done: the loop is left, what is in buf is dropped.
readEnd ==
  /\ ~readerDone
  /\ rest = <<>>
  /\ readerDone' = TRUE
  /\ UNCHANGED <<blocks, rest, buf, emitted, throws>>
  /\ UNCHANGED mainVars

InitSSE ==
  /\ variant = "AIGuide"
  /\ Constructed
  /\ blocks \in Bodies
  /\ rest = Wire(blocks)
  /\ buf = <<>>
  /\ emitted = <<>>
  /\ readerDone = FALSE
  /\ throws = FALSE

\* A body of one block, read by a loop whose callback raises an error on
\* every parsed payload.
InitSSEThrows ==
  /\ variant = "AIGuide"
  /\ Constructed
  /\ blocks \in [1..1 -> SSEBlocks]
  /\ rest = Wire(blocks)
  /\ buf = <<>>
  /\ emitted = <<>>
  /\ readerDone = FALSE
  /\ throws = TRUE

\* The body without the blank line that ends its last block.
Unterminated(bs) ==
  SubSeq(Wire(bs), 1, Len(Wire(bs)) - Len(Eol(bs[Len(bs)].term)))

\* A body whose last block is not terminated when the stream ends.
InitSSELeftover ==
  /\ variant = "AIGuide"
  /\ Constructed
  /\ blocks \in Bodies
  /\ rest = Unterminated(blocks)
  /\ buf = <<>>
  /\ emitted = <<>>
  /\ readerDone = FALSE
  /\ throws = FALSE

NextSSE ==
  \/ \E n \in 1..Len(rest) : read(n)
  \/ readEnd

\* --------------------------------------------------------- specifications
\* What every variant does.
CommonStep ==
  \/ Mount
  \/ \E ok \in {"true", "false"} : Ping(ok)
  \/ Reload
  \/ \E q \in Inputs : send(q)
  \/ reset

\* What the streaming variants do, except the hard timer (units has none).
StreamStep ==
  \/ \E t \in TurnIds, ev \in Events : onEvent(t, ev)
  \/ \E t \in TurnIds : firstTokenWatchFires(t)
  \/ \E t \in TurnIds : streamEnds(t)
  \/ \E t \in TurnIds : streamFails(t)
  \/ \E t \in TurnIds : abortRejects(t)
  \/ \E t \in TurnIds, slot \in {"fbTimer", "fbCatch"}, r \in Responses :
       fallbackResolves(t, slot, r)

NextAIGuide == CommonStep \/ StreamStep \/ \E t \in TurnIds : hardWatchFires(t)
NextUnits == CommonStep \/ StreamStep
NextPart001 ==
  CommonStep \/ StreamStep \/ (\E t \in TurnIds : hardWatchFires(t)) \/ stopGenerating
NextChatWidget == CommonStep \/ \E t \in TurnIds, r \in Responses : postResolves(t, r)

Next == NextPart001 \/ NextChatWidget

\* part001 with meta events that carry citations, and no fallback.
NextCitations ==
  \/ CommonStep
  \/ \E t \in TurnIds, ev \in Events \cup CiteEvents : onEvent(t, ev)
  \/ \E t \in TurnIds : streamEnds(t)

\* AIGuide receiving tokens with different deltas; no timer expires, no
\* transport fails, and the user neither resets nor reloads.
NextDeltas ==
  \/ Mount
  \/ \E ok \in {"true", "false"} : Ping(ok)
  \/ \E q \in Inputs : send(q)
  \/ \E t \in TurnIds, ev \in Events \cup OtherTokenEvents : onEvent(t, ev)
  \/ \E t \in TurnIds : streamEnds(t)

\* AIGuide whose streaming requests are all rejected before any event (non-2xx
\* status or no body): the only transport outcome is the throw of line 82.
NextRejection ==
  \/ Mount
  \/ \E ok \in {"true", "false"} : Ping(ok)
  \/ \E q \in Inputs : send(q)
  \/ \E t \in TurnIds : streamFails(t)
  \/ \E t \in TurnIds : firstTokenWatchFires(t)
  \/ \E t \in TurnIds : hardWatchFires(t)
  \/ \E t \in TurnIds, slot \in {"fbTimer", "fbCatch"}, r \in Responses :
       fallbackResolves(t, slot, r)

\* One specification per variant of the component, and one for all of them.
SpecAIGuide == InitAIGuide /\ [][NextAIGuide]_vars
SpecUnits == InitUnits /\ [][NextUnits]_vars
SpecPart001 == InitPart001 /\ [][NextPart001]_vars
SpecChatWidget == InitChatWidget /\ [][NextChatWidget]_vars
SpecCitations == InitPart001 /\ [][NextCitations]_vars
SpecDeltas == InitAIGuide /\ [][NextDeltas]_vars
SpecRejection == InitAIGuide /\ [][NextRejection]_vars
SpecSSE == InitSSE /\ [][NextSSE]_vars
SpecSSEThrows == InitSSEThrows /\ [][NextSSE]_vars
SpecSSELeftover == InitSSELeftover /\ [][NextSSE]_vars
Spec == Init /\ [][Next]_vars

\* ------------------------------------------------------------ the claims
\* Fallback POSTs to /v1/chat issued so far by turn t.
Posts(t) ==
  (IF turns[t].fbTimer # "none" THEN 1 ELSE 0) + (IF turns[t].fbCatch # "none" THEN 1 ELSE 0)

\* No timer of any turn is armed and no transport or request is unresolved.
Quiescent ==
  \A t \in TurnIds :
    /\ ~InFlight(t)
    /\ turns[t].firstTokenWatch = "off"
    /\ turns[t].hardWatch = "off"

\* The assistant messages appended by turn t that are still in the list.
OwnAssistant(msgs, t) ==
  SelectSeq(msgs, LAMBDA m : m.turn = t /\ m.role = "assistant")

\* The step is a stream event or a fallback resolution of turn t.
TurnWrites(t) ==
  \/ \E ev \in Events : onEvent(t, ev)
  \/ \E slot \in {"fbTimer", "fbCatch"}, r \in Responses : fallbackResolves(t, slot, r)

\* C1: when the first-token timer of a turn expires before any token or meta
\* event was observed, that turn issues exactly one fallback POST (the expiry
\* issues one at once, so the count is 1 from then on).
C1_ExactlyOneFallback ==
  \A t \in TurnIds : turns[t].noLifeExpiry => Posts(t) = 1

\* C2: loading does not stay true forever.  When no timer is armed and no
\* transport or request is unresolved, nothing of a turn can happen any more, so
\* loading must already be false then.
C2_LoadingCleared == Quiescent => ~loading

\* C3: at most one turn has an unresolved transport or request.
C3_OneTurnInFlight == Cardinality({t \in TurnIds : InFlight(t)}) <= 1

\* C4: a reset leaves no stream open, empties the message list and clears the
\* identifier in memory and in storage; a reset of a state that is already
\* cleared changes nothing.
C4_ResetAbortsAndClears ==
  [][reset =>
       /\ \A t \in TurnIds : turns'[t].stream # "open"
       /\ messages' = <<>>
       /\ conversationId' = Null
       /\ store' = Null
       /\ (messages = <<>> /\ conversationId = Null /\ \A t \in TurnIds : turns[t].stream # "open")
            => UNCHANGED <<variant, mounted, apiOK, conversationId, store, messages, loading,
                           err, assistantIdxRef, abortRef, turns>>]_vars

\* C5: after a reset that hit a turn in flight, and until the next submission,
\* the message list stays empty and the identifier stays cleared in memory and
\* in storage.
C5_ResetSuppresses ==
  resetClean => messages = <<>> /\ conversationId = Null /\ store = Null

\* C6: once a completion of turn t is recorded, no stream event and no fallback
\* resolution of turn t changes t's assistant message.
C6_FirstResolutionWins ==
  [][\A t \in TurnIds :
       (turns[t].completed # "no" /\ TurnWrites(t))
         => OwnAssistant(messages', t) = OwnAssistant(messages, t)]_vars

\* C7: when the stream of a turn that was submitted on an empty conversation has
\* delivered meta with identifier c, then tokens d1..dk, then done, and ends, the
\* state is: the user message and one assistant message d1 ++ ... ++ dk,
\* identifier c, loading false, no fallback POST.
C7_HappyPathFinalState ==
  [][\A t \in TurnIds :
       (turns[t].scen = "done" /\ streamEnds(t))
         => /\ messages' = <<UserMsg(turns[t].q, t), AssistantMsg(turns[t].sum, t)>>
            /\ conversationId' = turns[t].scenCid
            /\ ~loading'
            /\ Posts(t)' = 0]_vars

\* C8: in a turn whose first-token timer expired without any sign of life, the
\* first successful fallback answer a replaces the placeholder (a is trimmed by
\* the code), and afterwards nothing of the same turn changes the message.
C8_FallbackAnswerStays ==
  [][\A t \in TurnIds :
       (turns[t].noLifeExpiry /\ OwnAssistant(messages, t) # <<>>)
         => /\ \A slot \in {"fbTimer", "fbCatch"}, r \in Responses :
                 (turns[t].completed = "no" /\ r.ok /\ fallbackResolves(t, slot, r))
                   => OwnAssistant(messages', t) = <<AssistantMsg(Trim(r.answer), t)>>
            /\ (turns[t].completed = "answer" /\ TurnWrites(t))
                 => OwnAssistant(messages', t) = OwnAssistant(messages, t)]_vars

\* d occurs in text
Contains(text, d) ==
  \E i \in 1..(Len(text) - Len(d) + 1) : SubSeq(text, i, i + Len(d) - 1) = d

\* C9: when a fallback request fails with {detail: d}, the turn's assistant
\* message becomes a text that contains d, and loading becomes false.
C9_FallbackErrorInline ==
  [][\A t \in TurnIds, slot \in {"fbTimer", "fbCatch"}, r \in Responses :
       (~r.ok /\ OwnAssistant(messages, t) # <<>> /\ fallbackResolves(t, slot, r))
         => /\ Contains(OwnAssistant(messages', t)[1].content, r.detail)
            /\ ~loading']_vars

\* C10: an identifier found in storage at mount is the in-memory identifier
\* once the mount effects have run, storage still holds it, and a submission
\* sends the in-memory identifier as conversation_id.
C10_IdSurvivesReload ==
  [][/\ (Mount /\ store # Null) => (conversationId' = store /\ store' = store)
     /\ \A q \in Inputs, t \in TurnIds :
          (send(q) /\ turns[t] = IdleTurn /\ turns'[t] # IdleTurn)
            => turns'[t].cid0 = conversationId]_vars

\* The step stores identifier c out of a server response: a meta event or a
\* successful answer to POST /v1/chat carrying c.
ServerSupplies(c) ==
  \/ \E t \in TurnIds, ev \in Events : ev.type = "meta" /\ ev.cid = c /\ onEvent(t, ev)
  \/ \E t \in TurnIds, slot \in {"fbTimer", "fbCatch"}, r \in Responses :
       r.ok /\ r.cid = c /\ fallbackResolves(t, slot, r)
  \/ \E t \in TurnIds, r \in Responses : r.ok /\ r.cid = c /\ postResolves(t, r)

HasWrittenId(t) ==
  /\ turns[t] # IdleTurn
  /\ \A u \in TurnIds \ {t} : turns[u] = IdleTurn
  /\ conversationId # Null
  /\ conversationId # turns[t].cid0

\* C12: once a response of turn t has stored an identifier, no later meta event
\* and no fallback response of turn t changes the identifier, in memory or in
\* storage.  (Stated for the first turn of a page, where what is stored can only
\* have come from that turn.)
C12_IdWrittenOncePerTurn ==
  [][\A t \in TurnIds :
       (HasWrittenId(t) /\ TurnWrites(t))
         => conversationId' = conversationId /\ store' = store]_vars

\* C13: send starts a turn only when the input is non-empty, no turn is in
\* flight and the probe has answered positively.
C13_SendNeedsProbe ==
  [][\A q \in Inputs :
       send(q) => /\ Trim(q) # <<>>
                  /\ \A t \in TurnIds : ~InFlight(t)
                  /\ apiOK = "true"]_vars

\* C14: when a meta event or a non-empty delta of turn t has been received, the
\* expiry of t's first-token timer neither aborts the stream nor issues a
\* fallback request.
C14_LifeDisarmsFirstTokenTimer ==
  [][\A t \in TurnIds :
       ((turns[t].scen = "meta" \/ turns[t].gotFirstToken) /\ firstTokenWatchFires(t))
         => turns'[t].stream = turns[t].stream /\ Posts(t)' = Posts(t)]_vars

\* C15: no timer of a turn whose completion is recorded takes effect: its
\* first-token timer neither aborts nor issues a request, its hard timer does
\* not change the loading flag.
C15_TerminalDisarmsTimers ==
  [][\A t \in TurnIds :
       turns[t].completed # "no"
         => /\ firstTokenWatchFires(t)
                 => turns'[t].stream = turns[t].stream /\ Posts(t)' = Posts(t)
            /\ hardWatchFires(t) => loading' = loading]_vars

\* C16: a turn has at most one active transport: while its stream is open no
\* fallback request of it is outstanding, and its two fallback requests are
\* never outstanding together.
C16_OneTransportPerTurn ==
  \A t \in TurnIds :
    /\ ~(turns[t].stream = "open" /\ "pending" \in {turns[t].fbTimer, turns[t].fbCatch})
    /\ ~(turns[t].fbTimer = "pending" /\ turns[t].fbCatch = "pending")

\* C17: once turn t's assistant message has citations, a meta event of turn t
\* does not change them.
C17_CitationsSetOnce ==
  [][\A t \in TurnIds, ev \in CiteEvents :
       (/\ OwnAssistant(messages, t) # <<>>
        /\ OwnAssistant(messages, t)[1].citations # <<>>
        /\ onEvent(t, ev))
         => OwnAssistant(messages', t)[1].citations = OwnAssistant(messages, t)[1].citations]_vars

\* What the event callback is to be called with for block b, read off the block
\* as composed: the name is that of the last event line, trimmed and in lower
\* case ("message" without one); the data text is the trimmed bodies of the data
\* lines, joined by line feeds.
nameOf(b) ==
  LET es == SelectSeq(b.lines, LAMBDA l : l.kind = "E")
  IN IF es = <<>> THEN <<"message">> ELSE toLowerCase(Trim(es[Len(es)].body))

dataTextOf(b) ==
  LET ds == SelectSeq(b.lines, LAMBDA l : l.kind = "D")
  IN join([i \in DOMAIN ds |-> Trim(ds[i].body)])

\* C18: when the whole body of N blocks has been delivered, in whatever chunks,
\* the callback has been called exactly N times, with the same names and payloads
\* as when the body arrives as one chunk.
C18_ChunkingInvariance ==
  rest = <<>> => /\ Len(emitted) = Len(blocks)
                 /\ emitted = readChunk(<<>>, Wire(blocks), <<>>).out

\* A body of two blocks with CR LF line ends has been delivered and read to its
\* end, and the callback was called twice.
C18_Witness ==
  /\ rest = <<>>
  /\ Len(blocks) = 2
  /\ Len(emitted) = 2
  /\ blocks[1].eol = "CRLF"
  /\ blocks[2].term = "CRLF"
  /\ readerDone

\* C19: when the body has been delivered, every block whose data text is no JSON
\* text has caused exactly one call of the callback, with the block's event name
\* and the payload {raw: data text}; no block is dropped.
C19_RawPayload ==
  rest = <<>> =>
    /\ Len(emitted) = Len(blocks)
    /\ \A k \in DOMAIN blocks :
         payloadOf(dataTextOf(blocks[k])).kind = "raw"
           => emitted[k] = [ev |-> nameOf(blocks[k]),
                            data |-> [kind |-> "raw", num |-> 0,
                                      raw |-> dataTextOf(blocks[k])]]

\* A block "event: X / data:x" has been read and reported as event x with raw x.
C19_Witness ==
  /\ rest = <<>>
  /\ \E k \in DOMAIN emitted :
       /\ emitted[k].ev = <<"x">>
       /\ emitted[k].data.kind = "raw"
       /\ emitted[k].data.raw = <<"x">>

Unanswered(t) ==
  /\ turns[t].stream = "open"
  /\ ~turns[t].gotFirstToken
  /\ turns[t].completed = "no"
  /\ turns[t].fbTimer = "none"

\* The streaming request of turn t was rejected before any token or done event.
RejectedUnanswered(t) ==
  /\ turns[t].stream = "rejected"
  /\ ~turns[t].gotFirstToken
  /\ turns[t].completed = "no"

\* The content the fallback response r leaves in the assistant message.
fallbackContent(r) ==
  IF r.ok THEN Trim(r.answer) ELSE ErrorText(ErrorMessage(r.detail))

\* C22: when the streaming request of a turn is rejected before any event, the
\* rejection applies no event and issues one fallback request, and when that
\* request is answered the turn's own assistant message holds the fallback's
\* answer or its inline error text and loading is false.
C22_RejectionFallsBack ==
  [][\A t \in TurnIds :
       /\ (Unanswered(t) /\ streamFails(t))
            => /\ Posts(t)' = Posts(t) + 1
               /\ messages' = messages
       /\ \A r \in Responses :
            (/\ fallbackResolves(t, "fbCatch", r)
             /\ RejectedUnanswered(t)
             /\ OwnAssistant(messages, t) # <<>>)
              => /\ ~loading'
                 /\ OwnAssistant(messages', t)[1].content = fallbackContent(r)]_vars

\* C23: the rejection that follows an abort requested by the turn's own
\* fallback trigger starts no further recovery: it issues no request.
C23_OwnAbortIsNoFailure ==
  [][\A t \in TurnIds :
       (turns[t].fbTimer # "none" /\ abortRejects(t)) => Posts(t)' = Posts(t)]_vars

\* C24: a token event or a fallback result of turn t changes no message other
\* than the assistant message turn t appended.
C24_TurnWritesOwnMessage ==
  [][\A t \in TurnIds :
       TurnWrites(t)
         => /\ Len(messages') = Len(messages)
            /\ \A i \in DOMAIN messages :
                 messages'[i] # messages[i]
                   => messages[i].turn = t /\ messages[i].role = "assistant"]_vars

\* C25: in the streaming chat the message list always consists of (user,
\* assistant) pairs: its length is even, and each user message is followed by
\* the assistant message of the same turn.
C25_MessagePairs ==
  variant \in Streaming =>
    /\ Len(messages) % 2 = 0
    /\ \A i \in DOMAIN messages :
         IF i % 2 = 1
         THEN messages[i].role = "user"
         ELSE /\ messages[i].role = "assistant"
              /\ messages[i].turn = messages[i - 1].turn

\* Two turns were appended and a stream event or fallback result was written.
C25_Witness ==
  /\ variant \in Streaming
  /\ Len(messages) = 4
  /\ \E i \in DOMAIN messages : messages[i].role = "assistant" /\ messages[i].content # <<>>

\* C26: when the body has been delivered, the callback has been called exactly
\* once per block with a data line, also when the callback raises an error.
C26_OnceWhenCallbackRaises ==
  rest = <<>> => Len(emitted) = Len(blocks)

\* The event the callback is to be called with for block b.
eventOf(b) == [ev |-> nameOf(b), data |-> payloadOf(dataTextOf(b))]

\* The text of the unterminated last block, as the buffer holds it.
leftoverOf(bs) == replaceCRLF(WireLines(bs[Len(bs)].lines, bs[Len(bs)].eol))

\* C27: when the body ends with an unterminated block, that block stays in the
\* buffer and causes no call of the callback, before and after the stream has
\* ended; the terminated blocks before it cause one call each.
C27_LeftoverDropped ==
  rest = <<>> =>
    /\ Len(emitted) = Len(blocks) - 1
    /\ \A k \in DOMAIN emitted : emitted[k] = eventOf(blocks[k])
    /\ buf = leftoverOf(blocks)

\* The stream has ended after one terminated block and an unterminated one with
\* a data line; the callback was called once and the leftover is in the buffer.
C27_Witness ==
  /\ readerDone
  /\ Len(blocks) = 2
  /\ Len(emitted) = 1
  /\ buf # <<>>
  /\ blockEvents(buf) # <<>>

\* The step is a response of turn u in which the server supplies identifier c.
TurnSupplies(u, c) ==
  \/ \E ev \in Events : ev.type = "meta" /\ ev.cid = c /\ onEvent(u, ev)
  \/ \E slot \in {"fbTimer", "fbCatch"}, r \in Responses :
       r.ok /\ r.cid = c /\ fallbackResolves(u, slot, r)

\* Turn t was started after turn u with no reset in between: the messages of
\* both are in the list (a reset removes the messages of every earlier turn).
Follows(t, u) ==
  /\ u < t
  /\ turns[t] # IdleTurn
  /\ OwnAssistant(messages, u) # <<>>
  /\ OwnAssistant(messages, t) # <<>>

\* C28: the request body of a turn carries the identifier stored when the turn
\* starts, and that is the last identifier the server supplies in the turn
\* before it: once the later turn has started, the earlier turn is supplied no
\* identifier other than the one the later turn carries.
C28_Continuity ==
  [][/\ \A q \in Inputs, t \in TurnIds :
          (send(q) /\ turns[t] = IdleTurn /\ turns'[t] # IdleTurn)
            => turns'[t].cid0 = conversationId
     /\ \A u, t \in TurnIds, c \in Cids :
          (Follows(t, u) /\ TurnSupplies(u, c)) => c = turns[t].cid0]_vars

\* The step triggers a fallback for turn t: its first-token timer expires, or
\* its stream promise rejects.
FallbackTriggered(t) ==
  \/ firstTokenWatchFires(t)
  \/ streamFails(t)
  \/ abortRejects(t)

Stopped(t) ==
  /\ turns[t].stream = "aborted"
  /\ turns[t].fbTimer = "none"
  /\ OwnAssistant(messages, t) # <<>>

\* C30: stopGenerating aborts the stream of the turn in flight, sets loading
\* false and leaves the messages as they are, and a stopped turn issues no
\* network request afterwards.
C30_StopEndsTurn ==
  [][/\ (stopGenerating /\ abortRef # 0)
          => /\ turns'[abortRef].stream # "open"
             /\ ~loading'
             /\ messages' = messages
     /\ \A t \in TurnIds : Stopped(t) => Posts(t)' = 0]_vars

====
